---- MODULE Spec2Model ----
(***************************************************************************)
(* gotham-cors-middleware: the CORSMiddleware struct, its constructors     *)
(* new() and default(), and Middleware::call, which runs the handler chain *)
(* and then writes five CORS headers into the response (src/src/lib.rs).   *)
(*                                                                         *)
(* Strings and header values are sequences of bytes (0..255), so that the  *)
(* conversions the code performs (Method::as_str, HeaderName::as_str,      *)
(* [String]::join, HeaderValue::to_str / from_str / from(u32)) are         *)
(* computed and can fail where the code's unwrap() can panic.              *)
(***************************************************************************)
EXTENDS Naturals, Sequences, FiniteSets

VARIABLES
    self,        \* the CORSMiddleware value (None before construction)
    args,        \* the arguments the constructor was called with
    state,       \* the gotham State of the exchange: the request's Origin header
    chainState,  \* the State the handler chain was invoked with
    chainResult, \* what the handler chain resolved to: Pending, Ok(response) or Err(e)
    response,    \* the response's HeaderMap: header name -> sequence of values
    origin,      \* closure local `origin`
    methods,     \* closure local `methods`
    headers,     \* closure local `headers`
    f,           \* what the future returned by call resolves to
    written,     \* the header names the closure has inserted in this exchange
    applies,     \* how many times the closure has run to completion on the response
    prior,       \* the response headers as they were when the closure last completed
    pc           \* position in the exchange

vars == <<self, args, state, chainState, chainResult, response, origin, methods,
          headers, f, written, applies, prior, pc>>

(***************************************************************************)
(* Bounds of the model.                                                    *)
(***************************************************************************)
\* longest method list new() is given (besides the two lists of the tests)
MaxMethods == 2
\* how many instances of the same middleware wrap the handler in the pipeline
MaxApplies == 2

(***************************************************************************)
(* Option, bytes and strings.                                              *)
(***************************************************************************)
None == [tag |-> "None"]
Some(x) == [tag |-> "Some", val |-> x]

Ok(x) == [tag |-> "Ok", val |-> x]
Err(e) == [tag |-> "Err", val |-> e]

RECURSIVE BoundedSeq(_, _)
BoundedSeq(S, n) ==
    IF n = 0 THEN {<<>>}
    ELSE LET shorter == BoundedSeq(S, n - 1)
         IN  shorter \cup {Append(s, x) : s \in {t \in shorter : Len(t) = n - 1}, x \in S}

(***************************************************************************)
(* hyper::Method and hyper::header::HeaderName, as the code uses them.     *)
(***************************************************************************)
\* Method::as_str: the token of a standard method
Method_as_str(m) ==
    CASE m = "OPTIONS" -> <<79, 80, 84, 73, 79, 78, 83>>
      [] m = "GET"     -> <<71, 69, 84>>
      [] m = "POST"    -> <<80, 79, 83, 84>>
      [] m = "PUT"     -> <<80, 85, 84>>
      [] m = "DELETE"  -> <<68, 69, 76, 69, 84, 69>>
      [] m = "HEAD"    -> <<72, 69, 65, 68>>
      [] m = "TRACE"   -> <<84, 82, 65, 67, 69>>
      [] m = "CONNECT" -> <<67, 79, 78, 78, 69, 67, 84>>
      [] m = "PATCH"   -> <<80, 65, 84, 67, 72>>

\* HeaderName::as_str: a standard header's name, which the http crate keeps in lower case
HeaderName_as_str_Capitalised(h) ==
    CASE h = "AUTHORIZATION" -> <<65, 117, 116, 104, 111, 114, 105, 122, 97, 116, 105, 111, 110>>
      [] h = "CONTENT_TYPE"  -> <<67, 111, 110, 116, 101, 110, 116, 45, 84, 121, 112, 101>>

HeaderName_as_str(h) ==
    CASE h = "AUTHORIZATION" -> <<97, 117, 116, 104, 111, 114, 105, 122, 97, 116, 105, 111, 110>>
      [] h = "CONTENT_TYPE"  -> <<99, 111, 110, 116, 101, 110, 116, 45, 116, 121, 112, 101>>

\* .iter().map(|m| String::from(m.as_str())).collect::<Vec<String>>()
MapMethods(ms) == [i \in 1..Len(ms) |-> Method_as_str(ms[i])]
MapHeaderNames(hs) == [i \in 1..Len(hs) |-> HeaderName_as_str(hs[i])]

\* [String]::join(sep)
RECURSIVE join_Dedup(_, _)
join_Dedup(strs, sep) ==
    IF Len(strs) = 0 THEN <<>>
    ELSE IF Len(strs) = 1 THEN strs[1]
    ELSE IF \E k \in 2..Len(strs) : strs[k] = strs[1] THEN join_Dedup(Tail(strs), sep)
    ELSE strs[1] \o sep \o join_Dedup(Tail(strs), sep)

RECURSIVE join(_, _)
join(strs, sep) ==
    IF Len(strs) = 0 THEN <<>>
    ELSE IF Len(strs) = 1 THEN strs[1]
    ELSE strs[1] \o sep \o join(Tail(strs), sep)

(***************************************************************************)
(* hyper::header::HeaderValue and HeaderMap, as the code uses them.        *)
(***************************************************************************)
\* HeaderValue::to_str: Ok only when every byte is visible ASCII (32..126) or a tab
HeaderValue_to_str(v) ==
    IF \A i \in 1..Len(v) : (v[i] >= 32 /\ v[i] < 127) \/ v[i] = 9
    THEN Ok(v) ELSE Err("ToStrError")

\* HeaderValue::from_str: Ok only when every byte is 32..255 other than 127, or a tab
HeaderValue_from_str(s) ==
    IF \A i \in 1..Len(s) : (s[i] >= 32 /\ s[i] # 127) \/ s[i] = 9
    THEN Ok(s) ELSE Err("InvalidHeaderValue")

\* HeaderValue::from(u32): the decimal digits of the number
RECURSIVE HeaderValue_from_u32_Hex(_)
HeaderValue_from_u32_Hex(n) ==
    LET d == n % 16
        c == IF d < 10 THEN 48 + d ELSE 87 + d
    IN  IF n < 16 THEN <<c>> ELSE Append(HeaderValue_from_u32_Hex(n \div 16), c)

RECURSIVE HeaderValue_from_u32(_)
HeaderValue_from_u32(n) ==
    IF n < 10 THEN <<48 + n>>
    ELSE Append(HeaderValue_from_u32(n \div 10), 48 + (n % 10))

\* HeaderMap::insert: the name is left with this one value, whatever it held
HeaderMap_insert_Append(map, name, value) ==
    [map EXCEPT ![name] = Append(@, value)]

HeaderMap_insert_IfAbsent(map, name, value) ==
    [map EXCEPT ![name] = IF Len(@) = 0 THEN <<value>> ELSE @]

HeaderMap_insert(map, name, value) ==
    [map EXCEPT ![name] = <<value>>]

\* HeaderMap::get: the first value of the name, if any
HeaderMap_get(map, name) ==
    IF Len(map[name]) = 0 THEN None ELSE Some(map[name][1])

(***************************************************************************)
(* Header names, and the inputs the exchange is run on.                    *)
(***************************************************************************)
ACCESS_CONTROL_ALLOW_CREDENTIALS == "access-control-allow-credentials"
ACCESS_CONTROL_ALLOW_HEADERS == "access-control-allow-headers"
ACCESS_CONTROL_ALLOW_METHODS == "access-control-allow-methods"
ACCESS_CONTROL_ALLOW_ORIGIN == "access-control-allow-origin"
ACCESS_CONTROL_MAX_AGE == "access-control-max-age"
ORIGIN == "origin"
CONTENT_TYPE_NAME == "content-type"

CorsHeaderNames ==
    {ACCESS_CONTROL_ALLOW_CREDENTIALS, ACCESS_CONTROL_ALLOW_ORIGIN,
     ACCESS_CONTROL_ALLOW_HEADERS, ACCESS_CONTROL_ALLOW_METHODS, ACCESS_CONTROL_MAX_AGE}

ResponseHeaderNames == CorsHeaderNames \cup {CONTENT_TYPE_NAME}

\* "http://www.example.com", the origin of the tests' custom_router
ExampleOrigin ==
    <<104, 116, 116, 112, 58, 47, 47, 119, 119, 119, 46, 101, 120, 97, 109, 112, 108, 101,
      46, 99, 111, 109>>
\* "http://foo.example"
FooOrigin ==
    <<104, 116, 116, 112, 58, 47, 47, 102, 111, 111, 46, 101, 120, 97, 109, 112, 108, 101>>
\* "a\nb": a String holding a line feed
LineFeedOrigin == <<97, 10, 98>>
\* "http://cafe" with its last letter the single byte 0xE9 (obs-text, legal in a header value)
ObsTextOrigin == <<104, 116, 116, 112, 58, 47, 47, 99, 97, 102, 233>>
\* "text/plain"
TextPlain == <<116, 101, 120, 116, 47, 112, 108, 97, 105, 110>>
\* "false"
FalseStr == <<102, 97, 108, 115, 101>>

\* the methods new() is given lists of
MethodChoices == {"GET", "DELETE", "POST"}
\* vec![Method::DELETE, Method::GET, Method::HEAD, Method::OPTIONS] of the tests
CustomMethods == <<"DELETE", "GET", "HEAD", "OPTIONS">>
MethodLists == BoundedSeq(MethodChoices, MaxMethods) \cup {CustomMethods}
\* origin: Option<String>
OriginChoices == {None, Some(ExampleOrigin), Some(<<>>), Some(LineFeedOrigin)}
\* max_age: u32. TLC's integers end at 2^31 - 1, so that is the largest value drawn; the
\* conversion to decimal works digit by digit and has no case of its own above it.
MaxAgeChoices == {0, 1000, 2147483647}

\* the request headers held by State: no Origin header, or one
RequestStates ==
    {[n \in {ORIGIN} |-> v] : v \in {<<>>, <<FooOrigin>>, <<ExampleOrigin>>, <<ObsTextOrigin>>}}

\* the headers of the response the handler produced: create_response sets the content
\* type; a handler may also have set or appended CORS headers of its own
PlainResponse ==
    [n \in ResponseHeaderNames |-> IF n = CONTENT_TYPE_NAME THEN <<TextPlain>> ELSE <<>>]
HandlerResponses ==
    {PlainResponse,
     [PlainResponse EXCEPT ![ACCESS_CONTROL_ALLOW_ORIGIN] = <<FooOrigin>>,
                           ![ACCESS_CONTROL_ALLOW_CREDENTIALS] = <<FalseStr>>,
                           ![ACCESS_CONTROL_MAX_AGE] = <<<<48>>>>],
     [PlainResponse EXCEPT ![ACCESS_CONTROL_ALLOW_METHODS] = <<<<71, 69, 84>>, <<80, 85, 84>>>>,
                           ![ACCESS_CONTROL_ALLOW_HEADERS] = <<<<42>>>>,
                           ![ACCESS_CONTROL_ALLOW_ORIGIN] = <<<<42>>, ExampleOrigin>>]}
\* the errors a handler chain can resolve to
HandlerErrors == {"NotFound", "InternalServerError"}

Pending == [tag |-> "Pending"]
Panicked == [tag |-> "Panicked"]
NoResponse == [tag |-> "NoResponse"]
NoState == [tag |-> "NoState"]
Unset == [tag |-> "Unset"]

(***************************************************************************)
(* CORSMiddleware::new and CORSMiddleware::default.                        *)
(***************************************************************************)
CORSMiddleware_new_SortsMethods(ms, o, a) ==
    [methods |-> IF Len(ms) = 2 /\ Len(Method_as_str(ms[1])) > Len(Method_as_str(ms[2]))
                 THEN <<ms[2], ms[1]>> ELSE ms,
     origin |-> o, max_age |-> a]

CORSMiddleware_new_DefaultsWhenEmpty(ms, o, a) ==
    [methods |-> IF Len(ms) = 0 THEN <<"GET">> ELSE ms, origin |-> o, max_age |-> a]

CORSMiddleware_new(ms, o, a) == [methods |-> ms, origin |-> o, max_age |-> a]

CORSMiddleware_default ==
    CORSMiddleware_new(<<"DELETE", "GET", "HEAD", "OPTIONS", "PATCH", "POST", "PUT">>,
                       None, 86400)

Init ==
    /\ self = None
    /\ args = None
    /\ state = NoState
    /\ chainState = NoState
    /\ chainResult = Pending
    /\ response = NoResponse
    /\ origin = Unset
    /\ methods = Unset
    /\ headers = Unset
    /\ f = Pending
    /\ written = {}
    /\ applies = 0
    /\ prior = NoResponse
    /\ pc = "init"

\* CORSMiddleware::new(methods, origin, max_age)
New(ms, o, a) ==
    /\ pc = "init"
    /\ self' = CORSMiddleware_new(ms, o, a)
    /\ args' = Some([ctor |-> "new", methods |-> ms, origin |-> o, max_age |-> a])
    /\ pc' = "ready"
    /\ UNCHANGED <<state, chainState, chainResult, response, origin, methods, headers, f,
                   written, applies, prior>>

\* CORSMiddleware::default()
Default ==
    /\ pc = "init"
    /\ self' = CORSMiddleware_default
    /\ args' = Some([ctor |-> "default"])
    /\ pc' = "ready"
    /\ UNCHANGED <<state, chainState, chainResult, response, origin, methods, headers, f,
                   written, applies, prior>>

(***************************************************************************)
(* Middleware::call: chain(state).and_then(closure).                       *)
(***************************************************************************)
\* the State handed to the handler chain: chain(state)
ChainArgument(st) == st

\* call(self, state, chain): the chain is invoked with the state as it came in
Call(st) ==
    /\ pc = "ready"
    /\ state' = st
    /\ chainState' = ChainArgument(st)
    /\ pc' = "chain"
    /\ UNCHANGED <<self, args, chainResult, response, origin, methods, headers, f,
                   written, applies, prior>>

\* the handler chain resolves to Ok((state, response)); the handler hands the State back
HandlerOk(resp) ==
    /\ pc = "chain"
    /\ chainResult' = Ok(resp)
    /\ response' = resp
    /\ pc' = "and_then"
    /\ UNCHANGED <<self, args, state, chainState, origin, methods, headers, f, written,
                   applies, prior>>

\* the handler chain resolves to Err(e): there is no response
HandlerErr(e) ==
    /\ pc = "chain"
    /\ chainResult' = Err(e)
    /\ pc' = "and_then"
    /\ UNCHANGED <<self, args, state, chainState, response, origin, methods, headers, f,
                   written, applies, prior>>

\* TryFutureExt::and_then: what the future resolves to when the chain resolved to Err(e)
AndThenErr_Replaced(r) == Err("InternalServerError")

AndThenErr(r) == r

\* and_then: the closure runs on Ok only; an Err is the future's result as it is
AndThen ==
    /\ pc = "and_then"
    /\ IF chainResult.tag = "Ok"
       THEN /\ pc' = "resolve"
            /\ f' = f
       ELSE /\ pc' = "done"
            /\ f' = AndThenErr(chainResult)
    /\ UNCHANGED <<self, args, state, chainState, chainResult, response, origin, methods,
                   headers, written, applies, prior>>

\* a panic of an unwrap() inside the closure: the response is dropped by the unwinding
Panic ==
    /\ f' = Panicked
    /\ response' = NoResponse
    /\ pc' = "panicked"

\* let origin = match self.origin { ... }
resolve_origin_EchoFirst(selfOrigin, requestHeaders) ==
    LET origin_raw == HeaderMap_get(requestHeaders, ORIGIN)
    IN  IF origin_raw.tag = "Some" THEN HeaderValue_to_str(origin_raw.val)
        ELSE IF selfOrigin.tag = "Some" THEN Ok(selfOrigin.val)
        ELSE Ok(<<42>>)

resolve_origin(selfOrigin, requestHeaders) ==
    IF selfOrigin.tag = "Some" THEN Ok(selfOrigin.val)
    ELSE LET origin_raw == HeaderMap_get(requestHeaders, ORIGIN)
         IN  IF origin_raw.tag = "Some"
             THEN HeaderValue_to_str(origin_raw.val)
             ELSE Ok(<<42>>)

ResolveOrigin ==
    /\ pc = "resolve"
    /\ LET o == resolve_origin(self.origin, state)
       IN  IF o.tag = "Ok"
           THEN /\ origin' = o.val
                /\ pc' = "join_methods"
                /\ UNCHANGED <<response, f>>
           ELSE /\ Panic
                /\ UNCHANGED origin
    /\ UNCHANGED <<self, args, state, chainState, chainResult, methods, headers, written,
                   applies, prior>>

\* let methods = self.methods.iter().map(..).collect::<Vec<String>>().join(", ")
JoinMethods ==
    /\ pc = "join_methods"
    /\ methods' = join(MapMethods(self.methods), <<44, 32>>)
    /\ pc' = "join_headers"
    /\ UNCHANGED <<self, args, state, chainState, chainResult, response, origin, headers,
                   f, written, applies, prior>>

\* let headers = vec![AUTHORIZATION, CONTENT_TYPE].iter().map(..).collect().join(", ")
JoinHeaders ==
    /\ pc = "join_headers"
    /\ headers' = join(MapHeaderNames(<<"AUTHORIZATION", "CONTENT_TYPE">>), <<44, 32>>)
    /\ pc' = "insert_credentials"
    /\ UNCHANGED <<self, args, state, chainState, chainResult, response, origin, methods,
                   f, written, applies, prior>>

\* response.headers_mut().insert(name, HeaderValue::from_str(s).unwrap())
InsertStr(name, s, next) ==
    LET v == HeaderValue_from_str(s)
    IN  IF v.tag = "Ok"
        THEN /\ response' = HeaderMap_insert(response, name, v.val)
             /\ written' = written \cup {name}
             /\ pc' = next
             /\ f' = f
        ELSE /\ Panic
             /\ written' = written

\* "true"
TrueStr == <<116, 114, 117, 101>>

InsertCredentials ==
    /\ pc = "insert_credentials"
    /\ InsertStr(ACCESS_CONTROL_ALLOW_CREDENTIALS, TrueStr, "insert_origin")
    /\ UNCHANGED <<self, args, state, chainState, chainResult, origin, methods, headers,
                   applies, prior>>

InsertOrigin ==
    /\ pc = "insert_origin"
    /\ InsertStr(ACCESS_CONTROL_ALLOW_ORIGIN, origin, "insert_headers")
    /\ UNCHANGED <<self, args, state, chainState, chainResult, origin, methods, headers,
                   applies, prior>>

InsertHeaders ==
    /\ pc = "insert_headers"
    /\ InsertStr(ACCESS_CONTROL_ALLOW_HEADERS, headers, "insert_methods")
    /\ UNCHANGED <<self, args, state, chainState, chainResult, origin, methods, headers,
                   applies, prior>>

InsertMethods ==
    /\ pc = "insert_methods"
    /\ InsertStr(ACCESS_CONTROL_ALLOW_METHODS, methods, "insert_max_age")
    /\ UNCHANGED <<self, args, state, chainState, chainResult, origin, methods, headers,
                   applies, prior>>

\* response.headers_mut().insert(ACCESS_CONTROL_MAX_AGE, HeaderValue::from(self.max_age))
InsertMaxAge ==
    /\ pc = "insert_max_age"
    /\ response' = HeaderMap_insert(response, ACCESS_CONTROL_MAX_AGE,
                                    HeaderValue_from_u32(self.max_age))
    /\ written' = written \cup {ACCESS_CONTROL_MAX_AGE}
    /\ pc' = "return"
    /\ UNCHANGED <<self, args, state, chainState, chainResult, origin, methods, headers, f,
                   applies, prior>>

\* future::ok((state, response))
Return ==
    /\ pc = "return"
    /\ f' = Ok("response")
    /\ applies' = applies + 1
    /\ pc' = "done"
    /\ UNCHANGED <<self, args, state, chainState, chainResult, response, origin, methods,
                   headers, written, prior>>

\* The pipeline holds the same middleware once more, outside this one: the future just
\* resolved is that instance's chain(state), and its closure runs on the same response
\* with the same State.
CallOuter ==
    /\ pc = "done"
    /\ f.tag = "Ok"
    /\ applies < MaxApplies
    /\ prior' = response
    /\ f' = Pending
    /\ pc' = "resolve"
    /\ UNCHANGED <<self, args, state, chainState, chainResult, response, origin, methods,
                   headers, written, applies>>

Next ==
    \/ \E ms \in MethodLists, o \in OriginChoices, a \in MaxAgeChoices : New(ms, o, a)
    \/ Default
    \/ \E st \in RequestStates : Call(st)
    \/ \E resp \in HandlerResponses : HandlerOk(resp)
    \/ \E e \in HandlerErrors : HandlerErr(e)
    \/ AndThen
    \/ ResolveOrigin
    \/ JoinMethods
    \/ JoinHeaders
    \/ InsertCredentials
    \/ InsertOrigin
    \/ InsertHeaders
    \/ InsertMethods
    \/ InsertMaxAge
    \/ Return
    \/ CallOuter

Spec == Init /\ [][Next]_vars

(***************************************************************************)
(* The properties checked.                                                 *)
(***************************************************************************)
\* the closure has run to its end on the response: call's future resolved to Ok
Applied == pc = "done" /\ f.tag = "Ok"

\* the canonical upper-case token of each standard method
CanonicalToken ==
    [OPTIONS |-> <<79, 80, 84, 73, 79, 78, 83>>, GET |-> <<71, 69, 84>>,
     POST |-> <<80, 79, 83, 84>>, PUT |-> <<80, 85, 84>>,
     DELETE |-> <<68, 69, 76, 69, 84, 69>>, HEAD |-> <<72, 69, 65, 68>>,
     TRACE |-> <<84, 82, 65, 67, 69>>, CONNECT |-> <<67, 79, 78, 78, 69, 67, 84>>,
     PATCH |-> <<80, 65, 84, 67, 72>>]

\* the allow-origin value the policy and the request call for
ExpectedOrigin ==
    IF self.origin # None THEN self.origin.val
    ELSE IF Len(state[ORIGIN]) > 0 THEN state[ORIGIN][1]
    ELSE <<42>>

\* C1: whenever apply has written Access-Control-Allow-Origin, its value is the policy's
\* fixed origin if one is configured, whatever the request's Origin header; otherwise the
\* request's Origin value as it came; otherwise "*".
C1_AllowOrigin ==
    (response # NoResponse /\ ACCESS_CONTROL_ALLOW_ORIGIN \in written) =>
        response[ACCESS_CONTROL_ALLOW_ORIGIN] = <<ExpectedOrigin>>

\* a fixed origin is configured, the request names another origin, and the fixed one is written
C1_Witness ==
    /\ Applied
    /\ self.origin = Some(ExampleOrigin)
    /\ state[ORIGIN] = <<FooOrigin>>
    /\ response[ACCESS_CONTROL_ALLOW_ORIGIN] = <<ExampleOrigin>>

\* "Authorization, Content-Type"
CapitalisedAllowHeaders ==
    <<65, 117, 116, 104, 111, 114, 105, 122, 97, 116, 105, 111, 110, 44, 32,
      67, 111, 110, 116, 101, 110, 116, 45, 84, 121, 112, 101>>
\* "authorization, content-type"
LowerCaseAllowHeaders ==
    <<97, 117, 116, 104, 111, 114, 105, 122, 97, 116, 105, 111, 110, 44, 32,
      99, 111, 110, 116, 101, 110, 116, 45, 116, 121, 112, 101>>

\* C2 as stated: after apply the response carries Access-Control-Allow-Credentials "true"
\* and Access-Control-Allow-Headers "Authorization, Content-Type", in this capitalisation.
C2_Original ==
    Applied =>
        /\ response[ACCESS_CONTROL_ALLOW_CREDENTIALS] = <<TrueStr>>
        /\ response[ACCESS_CONTROL_ALLOW_HEADERS] = <<CapitalisedAllowHeaders>>

\* C2 as amended: after apply the response carries Access-Control-Allow-Credentials "true"
\* and Access-Control-Allow-Headers "authorization, content-type" (lower case, this
\* order), whatever the configured methods, origin and max-age.
C2_ConstantHeaders ==
    Applied =>
        /\ response[ACCESS_CONTROL_ALLOW_CREDENTIALS] = <<TrueStr>>
        /\ response[ACCESS_CONTROL_ALLOW_HEADERS] = <<LowerCaseAllowHeaders>>

\* apply has run on a response whose handler had set Allow-Credentials to "false"
C2_Witness ==
    /\ Applied
    /\ chainResult.val[ACCESS_CONTROL_ALLOW_CREDENTIALS] = <<FalseStr>>
    /\ self.max_age = 1000
    /\ response[ACCESS_CONTROL_ALLOW_HEADERS] = <<LowerCaseAllowHeaders>>

\* C3 as stated: construction with the empty method list fails, so that no policy with
\* an empty method list ever exists.
C3_Original ==
    self # None => Len(self.methods) > 0

\* C3 as amended: new() with the empty method list returns a policy whose method list is
\* empty; that policy handles requests, and apply then writes an empty
\* Access-Control-Allow-Methods value.
C3_EmptyMethodsAccepted ==
    (args # None /\ args.val.ctor = "new" /\ args.val.methods = <<>>) =>
        /\ self # None
        /\ self.methods = <<>>
        /\ Applied => response[ACCESS_CONTROL_ALLOW_METHODS] = <<<<>>>>

\* a policy built from the empty list has handled a request
C3_Witness ==
    /\ Applied
    /\ args.val.ctor = "new"
    /\ args.val.methods = <<>>
    /\ response[ACCESS_CONTROL_ALLOW_METHODS] = <<<<>>>>

\* C4 as stated: for a policy with a non-empty method list, once the handler has produced
\* a response, apply never fails or aborts, whatever the fixed origin and the request's
\* Origin header are.
C4_Original ==
    (chainResult.tag = "Ok" /\ Len(self.methods) > 0) => f # Panicked

\* the offset at which the i-th token starts in the joined value
RECURSIVE TokenOffset(_, _)
TokenOffset(ms, i) ==
    IF i = 1 THEN 0 ELSE TokenOffset(ms, i - 1) + Len(CanonicalToken[ms[i - 1]]) + 2

RECURSIVE DecimalValue(_)
DecimalValue(v) ==
    IF Len(v) = 0 THEN 0
    ELSE DecimalValue(SubSeq(v, 1, Len(v) - 1)) * 10 + (v[Len(v)] - 48)

\* C6: the Access-Control-Max-Age value apply writes is the decimal string of the
\* configured max-age (digits only, no leading zero, denoting that number), whatever the
\* request and the other policy fields.
C6_MaxAge ==
    Applied =>
        LET v == response[ACCESS_CONTROL_MAX_AGE][1]
        IN  /\ Len(response[ACCESS_CONTROL_MAX_AGE]) = 1
            /\ Len(v) >= 1
            /\ \A i \in 1..Len(v) : v[i] \in 48..57
            /\ Len(v) > 1 => v[1] # 48
            /\ DecimalValue(v) = self.max_age

\* the custom policy of the tests: max-age 1000 is written as "1000"
C6_Witness ==
    /\ Applied
    /\ self.max_age = 1000
    /\ self.origin = Some(ExampleOrigin)
    /\ response[ACCESS_CONTROL_MAX_AGE] = <<<<49, 48, 48, 48>>>>

\* the tokens of a method list joined by ", ", built from the left
RECURSIVE JoinedTokens(_, _)
JoinedTokens(ms, k) ==
    IF k = 0 THEN <<>>
    ELSE JoinedTokens(ms, k - 1) \o (IF k > 1 THEN <<44, 32>> ELSE <<>>) \o CanonicalToken[ms[k]]

\* the value each CORS header but Max-Age is to hold, from the policy and the request
ExpectedValue(name) ==
    CASE name = ACCESS_CONTROL_ALLOW_CREDENTIALS -> TrueStr
      [] name = ACCESS_CONTROL_ALLOW_ORIGIN -> ExpectedOrigin
      [] name = ACCESS_CONTROL_ALLOW_HEADERS -> LowerCaseAllowHeaders
      [] name = ACCESS_CONTROL_ALLOW_METHODS -> JoinedTokens(self.methods, Len(self.methods))

\* C7: whatever the handler wrote for the five CORS headers, after apply each of them
\* holds exactly one value, the one computed from the policy and the request.
C7_Overwrites ==
    Applied =>
        /\ \A name \in CorsHeaderNames : Len(response[name]) = 1
        /\ \A name \in CorsHeaderNames \ {ACCESS_CONTROL_MAX_AGE} :
            response[name][1] = ExpectedValue(name)
        /\ DecimalValue(response[ACCESS_CONTROL_MAX_AGE][1]) = self.max_age

\* the handler had appended two Allow-Origin values and two Allow-Methods values
C7_Witness ==
    /\ Applied
    /\ Len(chainResult.val[ACCESS_CONTROL_ALLOW_ORIGIN]) = 2
    /\ Len(chainResult.val[ACCESS_CONTROL_ALLOW_METHODS]) = 2
    /\ Len(response[ACCESS_CONTROL_ALLOW_ORIGIN]) = 1
    /\ Len(response[ACCESS_CONTROL_ALLOW_METHODS]) = 1

\* C8: apply is idempotent: when the same policy has been applied a second time to the
\* same response with the same request, the headers are those the first apply left.
C8_Idempotent ==
    (Applied /\ applies >= 2) => response = prior

\* apply has run twice on a response the handler had put CORS headers into
C8_Witness ==
    /\ Applied
    /\ applies = 2
    /\ chainResult.val # PlainResponse
    /\ prior # chainResult.val
    /\ response = prior

\* C9: default() yields the policy new([DELETE, GET, HEAD, OPTIONS, PATCH, POST, PUT],
\* None, 86400); new(methods, origin, max_age) stores its three arguments unchanged.
C9_Constructors ==
    (self # None /\ args # None) =>
        IF args.val.ctor = "default"
        THEN self = [methods |-> <<"DELETE", "GET", "HEAD", "OPTIONS", "PATCH", "POST", "PUT">>,
                     origin |-> None, max_age |-> 86400]
        ELSE /\ self.methods = args.val.methods
             /\ self.origin = args.val.origin
             /\ self.max_age = args.val.max_age

\* new() was given a list that is not in alphabetical order
C9_Witness ==
    /\ pc = "ready"
    /\ args.val.ctor = "new"
    /\ args.val.methods = <<"POST", "GET">>
    /\ self.methods = <<"POST", "GET">>

\* C10: the CORS headers are written only after the handler chain has resolved to a
\* response; the chain is run on the State as it came in; and when the chain resolves to
\* an error no CORS header is written and the future resolves to that same error.
C10_AfterHandler ==
    /\ written # {} => chainResult.tag = "Ok"
    /\ pc \in {"init", "ready", "chain", "and_then"} => written = {}
    /\ chainState # NoState => chainState = state
    /\ (chainResult.tag = "Err" /\ pc = "done") =>
        /\ f = chainResult
        /\ written = {}
        /\ response = NoResponse

\* the chain resolved to an error and the future resolved to it
C10_Witness ==
    /\ pc = "done"
    /\ chainResult = Err("NotFound")
    /\ f = Err("NotFound")
    /\ written = {}

====
